---------------------------- MODULE Spec2Model ----------------------------
(***************************************************************************)
(* Model of tasks/task_database_cue.c (RetroArch): the get_token lexer,    *)
(* the CUE and GDI playlist scanners, the magic-number detector and the    *)
(* Sega CD / Saturn serial decoders.                                       *)
(*                                                                         *)
(* Bytes are their ASCII codes (0 is the C string terminator).  A char     *)
(* buffer is the sequence of the cells written so far; cell i of the C     *)
(* array is element i+1 of the sequence.                                   *)
(***************************************************************************)
EXTENDS Integers, Sequences, FiniteSets, TLC

VARIABLES
  fd,         \* bytes of the text stream being read (CUE sheet, GDI playlist)
  pos,        \* read cursor of fd (intfstream_tell)
  tmp_token,  \* the token buffer handed to get_token
  errno,      \* the C library's errno
  pc,         \* position of the running function
  first,      \* the `first` argument of cue_find_track / gdi_find_track
  fsys,       \* referenced file name -> size, or -1 when it cannot be opened
  cue,        \* locals of cue_find_track
  gdi,        \* locals of gdi_find_track / state of the gdi_next_file caller
  out,        \* the caller's output arguments and the return value
  hist,       \* log of the candidates handed to update_cand / files sized
  tok,        \* the caller of get_token: max_len and the tokens returned
  given,      \* the playlist the stream was written from (never read by the code)
  img,        \* the binary disc image read by the detectors
  det         \* locals and outputs of detect_system / the serial decoders

vars == <<fd, pos, tmp_token, errno, pc, first, fsys, cue, gdi, out, hist,
          tok, given, img, det>>

Unused == <<>>

---------------------------------------------------------------------------
(* Sequences of bytes *)

Min(a, b) == IF a < b THEN a ELSE b
Max(a, b) == IF a > b THEN a ELSE b

\* s[from .. to] (1-based, inclusive), empty when out of range
Slice(s, from, to) ==
  IF from > to \/ from > Len(s) THEN <<>>
  ELSE SubSeq(s, from, Min(to, Len(s)))

\* All sequences over S of length 0..n
SeqsUpTo(S, n) == UNION {[1..k -> S] : k \in 0..n}

RECURSIVE Concat(_)
Concat(ss) == IF ss = <<>> THEN <<>> ELSE Head(ss) \o Concat(Tail(ss))

\* A C string: the bytes of a buffer before its first NUL
RECURSIVE CStrFrom(_, _)
CStrFrom(buf, i) ==
  IF i > Len(buf) \/ buf[i] = 0 THEN <<>>
  ELSE <<buf[i]>> \o CStrFrom(buf, i + 1)

CStr(buf) == CStrFrom(buf, 1)

\* Store byte b in cell i (0-based) of a buffer whose cells 0..Len-1 are written
Poke(buf, i, b) ==
  IF i + 1 <= Len(buf) THEN [buf EXCEPT ![i + 1] = b] ELSE Append(buf, b)

---------------------------------------------------------------------------
(* get_token : src/tasks/task_database_cue.c:75-133 *)

\* case ' ': case '\t': case '\r': case '\n':
TokDelims == {32, 9, 13, 10}

\* case '\"':
TokQuote == {34}

\* if (len == (int64_t)max_len)
TokLimitOff(len, max_len) == len = max_len + 1
TokLimit(len, max_len) == len = max_len

\* if (rv == 0) return 0;   whatever has been accumulated is dropped
TokEof(len) == 0

\* One call.  c - token equals len throughout, so `c == token` is len = 0.
\* Result: the return value, the cursor and the buffer after the call.
RECURSIVE get_token(_, _, _, _, _, _)
get_token(s, p, token, len, in_string, max_len) ==
  IF p >= Len(s)
  THEN [rv |-> TokEof(len), pos |-> p, token |-> token]
  ELSE
    LET ch  == s[p + 1]
        t1  == Poke(token, len, ch)         \* intfstream_read(fd, c, 1)
        ret == [rv |-> len, pos |-> p + 1, token |-> Poke(t1, len, 0)]
        adv == IF TokLimit(len + 1, max_len)
               THEN [rv |-> len + 1, pos |-> p + 1,
                     token |-> Poke(t1, len + 1, 0)]
               ELSE get_token(s, p + 1, t1, len + 1, in_string, max_len)
    IN  IF ch \in TokDelims
        THEN IF len = 0 THEN get_token(s, p + 1, t1, len, in_string, max_len)
             ELSE IF in_string = 0 THEN ret
             ELSE adv
        ELSE IF ch \in TokQuote
        THEN IF len = 0 THEN get_token(s, p + 1, t1, len, 1, max_len)
             ELSE ret
        ELSE adv

GetToken(s, p, token, max_len) == get_token(s, p, token, 0, 0, max_len)

---------------------------------------------------------------------------
(* A caller that reads tokens until get_token returns 0 *)

MaxInput == 5
MaxTokLen == 3

TokAlphabet == {97, 98, 32, 34, 10}     \* a b space quote newline

TokInit ==
  /\ fd \in SeqsUpTo(TokAlphabet, MaxInput)
  /\ pos = 0
  /\ tmp_token = <<>>
  /\ pc = "run"
  /\ tok \in {[max_len |-> m, toks |-> <<>>, rvs |-> <<>>, starts |-> <<>>] :
                m \in 1..MaxTokLen}
  /\ errno = 0 /\ first = FALSE /\ fsys = Unused /\ cue = Unused
  /\ gdi = Unused /\ out = Unused /\ hist = Unused /\ img = Unused
  /\ det = Unused /\ given = Unused

TokCall ==
  /\ pc = "run"
  /\ \E r \in {GetToken(fd, pos, tmp_token, tok.max_len)} :
         /\ pos' = r.pos
         /\ tmp_token' = r.token
         /\ tok' = [tok EXCEPT
                      !.rvs  = Append(@, r.rv),
                      !.starts = Append(@, pos),
                      !.toks = IF r.rv > 0 THEN Append(@, CStr(r.token))
                               ELSE @]
         /\ pc' = IF r.rv > 0 THEN "run" ELSE "done"
  /\ UNCHANGED <<fd, errno, first, fsys, cue, gdi, out, hist, given, img, det>>

TokNext == TokCall

SpecTok == TokInit /\ [][TokNext]_vars

(* What the input holds, computed from the input alone *)

RECURSIVE SkipDelims(_, _)
SkipDelims(s, p) ==
  IF p < Len(s) /\ s[p + 1] \in TokDelims THEN SkipDelims(s, p + 1) ELSE p

RECURSIVE PlainRun(_, _)
PlainRun(s, p) ==
  IF p < Len(s) /\ s[p + 1] \notin (TokDelims \cup TokQuote)
  THEN <<s[p + 1]>> \o PlainRun(s, p + 1) ELSE <<>>

\* The unquoted directive that starts at or after cursor p
DirectiveAt(s, p) == PlainRun(s, SkipDelims(s, p))

RECURSIVE StripTrailing(_)
StripTrailing(s) ==
  IF s # <<>> /\ s[Len(s)] \in TokDelims
  THEN StripTrailing(SubSeq(s, 1, Len(s) - 1)) ELSE s

RECURSIVE SplitSpaces(_)
SplitSpaces(s) ==
  IF s = <<>> THEN <<>>
  ELSE LET w == PlainRun(s, 0)
       IN  IF Len(w) = Len(s) THEN <<w>>
           ELSE <<w>> \o SplitSpaces(SubSeq(s, Len(w) + 2, Len(s)))

RECURSIVE JoinSpaces(_)
JoinSpaces(ts) ==
  IF ts = <<>> THEN <<>>
  ELSE IF Len(ts) = 1 THEN ts[1]
  ELSE ts[1] \o <<32>> \o JoinSpaces(Tail(ts))

\* No quotes; tokens shorter than max_len separated by single spaces;
\* any trailing delimiters
TokSingleSpaced ==
  LET core == StripTrailing(fd)
  IN  /\ \A i \in 1..Len(fd) : fd[i] \notin TokQuote
      /\ \A i \in 1..Len(core) : core[i] \in TokDelims => core[i] = 32
      /\ core # <<>> => core[1] # 32
      /\ \A i \in 1..(Len(core) - 1) : ~(core[i] = 32 /\ core[i + 1] = 32)
      /\ \A i \in 1..Len(SplitSpaces(core)) :
            Len(SplitSpaces(core)[i]) < tok.max_len

\* C6: for a quote-free input whose tokens, each shorter than max_len, are
\* separated by single spaces, the tokens returned until get_token gives 0
\* are all the tokens of the input in order, and joined by single spaces
\* they give back the input without its trailing delimiters, whether or
\* not the input ends with a delimiter.
TokRoundTrip ==
  (pc = "done" /\ TokSingleSpaced) =>
     /\ tok.toks = SplitSpaces(StripTrailing(fd))
     /\ JoinSpaces(tok.toks) = StripTrailing(fd)

\* C7: a call never returns more than max_len; a directive of max_len
\* bytes or more gives return value max_len and exactly its first max_len
\* bytes (a directive of exactly max_len bytes comes back whole).
TokTruncation ==
  \A k \in 1..Len(tok.rvs) :
    /\ tok.rvs[k] <= tok.max_len
    /\ LET d == DirectiveAt(fd, tok.starts[k])
       IN  Len(d) >= tok.max_len =>
             /\ tok.rvs[k] = tok.max_len
             /\ tok.toks[k] = SubSeq(d, 1, tok.max_len)
             /\ Len(tok.toks[k]) = tok.rvs[k]

\* One call met a directive of exactly max_len bytes and another one met a
\* longer directive, and both returned max_len
TokTruncationSeen ==
  \E j, k \in 1..Len(tok.rvs) :
    /\ Len(DirectiveAt(fd, tok.starts[j])) = tok.max_len
    /\ Len(DirectiveAt(fd, tok.starts[k])) > tok.max_len
    /\ tok.rvs[j] = tok.max_len /\ tok.rvs[k] = tok.max_len
    /\ tok.toks[j] = DirectiveAt(fd, tok.starts[j])

---------------------------------------------------------------------------
(* What the playlist scanners share *)

\* #define MAX_TOKEN_LEN 255
MAX_TOKEN_LEN == 255

\* rv = -EINVAL;  errno = EINVAL;
EINVAL == 22

\* errno left by the open that failed in intfstream_get_file_size
ENOENT == 2

\* intfstream_get_file_size(path): -1 when the file cannot be opened
intfstream_get_file_size(path) ==
  IF path \in DOMAIN fsys THEN fsys[path] ELSE -1

\* fill_pathname_basedir(dir, playlist_path): the playlist's directory, "d/"
BaseDir == <<100, 47>>

\* fill_pathname_join(out, dir, name)
fill_pathname_join(dir, name) == dir \o name

\* The referenced files: "x", "y"
FileNames == {<<120>>, <<121>>}

\* The caller's output arguments before the call; rv = 1 stands for
\* "not returned yet" (the functions return 0 or a negative value)
PriorOut == [rv |-> 1, offset |-> -1, size |-> -1, track_path |-> <<63>>]

RECURSIVE Dec(_)
Dec(n) == IF n < 10 THEN <<48 + n>> ELSE Dec(n \div 10) \o <<48 + (n % 10)>>

\* atoi on a token of digits: the leading digits, 0 when there are none
RECURSIVE AtoiAcc(_, _, _)
AtoiAcc(s, i, acc) ==
  IF i <= Len(s) /\ s[i] \in 48..57
  THEN AtoiAcc(s, i + 1, acc * 10 + (s[i] - 48)) ELSE acc

atoi(s) == AtoiAcc(s, 1, 0)

---------------------------------------------------------------------------
(* GDI playlists: a track count, then one line per track                   *)
(*   track_number offset mode sector_size filename disc_offset             *)

MaxEntries == 2

GdiEntries == [mode : {0, 4}, size : {2352, 2048}, name : FileNames]

\* How the playlist ends: with a newline, without one, or with a last line
\* that lacks its disc_offset field
GdiTrails == {"nl", "eof", "short"}

FileSizes == {-1, 0, 10, 100}

GdiLine(k, e) ==
  Dec(k) \o <<32>> \o Dec(0) \o <<32>> \o Dec(e.mode) \o <<32>> \o
  Dec(e.size) \o <<32>> \o e.name

\* Lines end with LF or with CR LF
GdiEols == {<<10>>, <<13, 10>>}

GdiLineEnd(last, g) ==
  IF ~last \/ g.trail = "nl" THEN <<32, 48>> \o g.eol
  ELSE IF g.trail = "eof" THEN <<32, 48>>
  ELSE g.eol

\* The bytes of the count line and of the first k track lines
RECURSIVE GdiPrefix(_, _)
GdiPrefix(g, k) ==
  IF k = 0 THEN Dec(Len(g.entries)) \o g.eol
  ELSE GdiPrefix(g, k - 1) \o GdiLine(k, g.entries[k]) \o
       GdiLineEnd(k = Len(g.entries), g)

GdiRender(g) == GdiPrefix(g, Len(g.entries))

GdiGiven ==
  /\ given \in [entries : SeqsUpTo(GdiEntries, MaxEntries), trail : GdiTrails,
                eol : GdiEols]
  /\ fd = GdiRender(given)
  /\ pos = 0
  /\ fsys \in [{fill_pathname_join(BaseDir, n) : n \in FileNames} -> FileSizes]
  /\ out = PriorOut
  /\ errno = 0
  /\ hist = <<>>
  /\ cue = Unused /\ tok = Unused /\ img = Unused /\ det = Unused

(* gdi_find_track : src/tasks/task_database_cue.c:1119-1248 *)

GdiFindInit ==
  /\ GdiGiven
  /\ first \in BOOLEAN
  /\ tmp_token = <<>>
  /\ gdi = [largest |-> 0, size |-> -1, mode |-> -1, file_size |-> -1,
            rv |-> 1, open |-> TRUE]
  /\ pc = "gdi_start"

\* tmp_token[0] = '\0'; rv = -EINVAL; get_token(...)  /* Skip track count */
GdiFindStart ==
  /\ pc = "gdi_start"
  /\ \E t \in {GetToken(fd, pos, <<0>>, MAX_TOKEN_LEN)} :
         /\ pos' = t.pos
         /\ tmp_token' = t.token
  /\ gdi' = [gdi EXCEPT !.rv = -EINVAL]
  /\ pc' = "gdi_loop"
  /\ UNCHANGED <<fd, errno, first, fsys, cue, out, hist, tok, given, img, det>>

\* if (!(mode == 0 && size == 2352))
GdiIsData(mode, size) == ~(mode = 0 /\ size = 2352)

\* The five tokens that open a loop iteration: track number, offset, mode,
\* sector size, file name
GdiTuple(p, token) ==
  LET t1 == GetToken(fd, p, token, MAX_TOKEN_LEN)
      t2 == GetToken(fd, t1.pos, t1.token, MAX_TOKEN_LEN)
      t3 == GetToken(fd, t2.pos, t2.token, MAX_TOKEN_LEN)
      t4 == GetToken(fd, t3.pos, t3.token, MAX_TOKEN_LEN)
      t5 == GetToken(fd, t4.pos, t4.token, MAX_TOKEN_LEN)
  IN  IF t1.rv <= 0 THEN [kind |-> "exit", t |-> t1]
      ELSE IF t2.rv <= 0 THEN [kind |-> "einval", t |-> t2]
      ELSE IF t3.rv <= 0 THEN [kind |-> "einval", t |-> t3]
      ELSE IF t4.rv <= 0 THEN [kind |-> "einval", t |-> t4]
      ELSE IF t5.rv <= 0 THEN [kind |-> "einval", t |-> t5]
      ELSE [kind |-> "entry", t |-> t5, mode |-> atoi(CStr(t3.token)),
            size |-> atoi(CStr(t4.token)), name |-> CStr(t5.token)]

\* clean: / error: the stream is closed and the value returned
GdiReturn(value, t, g, path, e) ==
  /\ pc' = "done"
  /\ pos' = t.pos
  /\ tmp_token' = t.token
  /\ gdi' = [g EXCEPT !.open = FALSE]
  /\ out' = [out EXCEPT !.rv = value, !.track_path = path]
  /\ errno' = e

\* /* Disc offset (not used?) */ and back to the top of the loop
GdiDiscOffset(t5, g, path) ==
  \E t6 \in {GetToken(fd, t5.pos, t5.token, MAX_TOKEN_LEN)} :
      IF t6.rv <= 0
      THEN GdiReturn(-EINVAL, t6, g, path, EINVAL)
      ELSE /\ pc' = "gdi_loop"
           /\ pos' = t6.pos
           /\ tmp_token' = t6.token
           /\ gdi' = g
           /\ out' = [out EXCEPT !.track_path = path]
           /\ errno' = errno

\* One iteration of  while (get_token(fd, tmp_token, MAX_TOKEN_LEN) > 0)
GdiFindEntry ==
  /\ pc = "gdi_loop"
  /\ \E it \in {GdiTuple(pos, tmp_token)} :
         IF it.kind = "exit"
         THEN GdiReturn(gdi.rv, it.t, gdi, out.track_path, errno)
         ELSE IF it.kind = "einval"
         THEN GdiReturn(-EINVAL, it.t, gdi, out.track_path, EINVAL)
         ELSE
           LET g1 == [gdi EXCEPT !.mode = it.mode, !.size = it.size]
               last_file == fill_pathname_join(BaseDir, it.name)
               file_size == intfstream_get_file_size(last_file)
               g2 == [g1 EXCEPT !.file_size = file_size]
               g3 == [g2 EXCEPT !.rv = 0, !.largest = file_size]
           IN  IF ~GdiIsData(it.mode, it.size)
               THEN GdiDiscOffset(it.t, g1, out.track_path)
               ELSE IF file_size < 0
               THEN GdiReturn(-ENOENT, it.t, g2, out.track_path, ENOENT)
               ELSE IF file_size > gdi.largest
               THEN IF first
                    THEN GdiReturn(0, it.t, g3, last_file, errno)
                    ELSE GdiDiscOffset(it.t, g3, last_file)
               ELSE GdiDiscOffset(it.t, g2, out.track_path)
  /\ UNCHANGED <<fd, first, fsys, cue, hist, tok, given, img, det>>

GdiFindNext == GdiFindStart \/ GdiFindEntry

SpecGdiFind == GdiFindInit /\ [][GdiFindNext]_vars

(* What the playlist holds, computed from the playlist alone *)

GdiDataTracks ==
  {k \in 1..Len(given.entries) :
     ~(given.entries[k].mode = 0 /\ given.entries[k].size = 2352)}

GdiPathOf(k) == fill_pathname_join(BaseDir, given.entries[k].name)

\* The first of the data tracks whose file is the largest
GdiLargestTrack ==
  CHOOSE k \in GdiDataTracks :
    \A j \in GdiDataTracks :
      \/ fsys[GdiPathOf(j)] < fsys[GdiPathOf(k)]
      \/ (fsys[GdiPathOf(j)] = fsys[GdiPathOf(k)] /\ k <= j)

\* Every line has its six fields, there is a data track, and every data
\* track's file exists and is not empty
GdiWellFormed ==
  /\ given.trail \in {"nl", "eof"}
  /\ GdiDataTracks # {}
  /\ \A k \in GdiDataTracks : fsys[GdiPathOf(k)] > 0

\* C4: on a playlist of six-field entries, gdi_find_track with first=false
\* returns success with the path of the largest file among the tracks that
\* are not (mode 0, sector size 2352).
GdiReturnsLargestData ==
  (pc = "done" /\ ~first /\ GdiWellFormed) =>
     /\ out.rv = 0
     /\ out.track_path = GdiPathOf(GdiLargestTrack)

---------------------------------------------------------------------------
(* gdi_next_file : src/tasks/task_database_cue.c:1250-1296, called again    *)
(* and again on one stream the caller keeps open                            *)

GdiNextInit ==
  /\ GdiGiven
  /\ first = FALSE
  /\ tmp_token = <<>>
  /\ gdi = [open |-> TRUE, rets |-> <<>>, paths |-> <<>>, cursors |-> <<>>]
  /\ pc = "caller"

\* offset = intfstream_tell(fd); if (offset == 0) get_token(...)
GdiSkipsCountNever(offset) == FALSE
GdiSkipsCount(offset) == offset = 0

\* The tokens one call reads: the track count when the cursor is at 0, then
\* track number, offset, mode, sector size and file name
GdiNextTuple ==
  LET tmp == <<0>>                                  \* tmp_token[0] = '\0'
      t0 == IF GdiSkipsCount(pos)
            THEN GetToken(fd, pos, tmp, MAX_TOKEN_LEN)
            ELSE [rv |-> 0, pos |-> pos, token |-> tmp]
      t1 == GetToken(fd, t0.pos, t0.token, MAX_TOKEN_LEN)
      t2 == GetToken(fd, t1.pos, t1.token, MAX_TOKEN_LEN)
      t3 == GetToken(fd, t2.pos, t2.token, MAX_TOKEN_LEN)
      t4 == GetToken(fd, t3.pos, t3.token, MAX_TOKEN_LEN)
  IN  GetToken(fd, t4.pos, t4.token, MAX_TOKEN_LEN)

\* One call.  The caller's log keeps the value returned, the path argument
\* and the cursor after each call; calls stop two after the last entry.
GdiNextFile ==
  /\ pc = "caller"
  /\ Len(gdi.rets) < Len(given.entries) + 2
  /\ \E t5 \in {GdiNextTuple} :
       IF t5.rv > 0
       THEN \E t6 \in {GetToken(fd, t5.pos, t5.token, MAX_TOKEN_LEN)} :
              \E path \in {fill_pathname_join(BaseDir, CStr(t5.token))} :
                /\ out' = [out EXCEPT !.track_path = path]
                /\ pos' = t6.pos
                /\ tmp_token' = t6.token
                /\ gdi' = [gdi EXCEPT !.rets = Append(@, TRUE),
                                      !.paths = Append(@, path),
                                      !.cursors = Append(@, t6.pos)]
       ELSE /\ out' = out
            /\ pos' = t5.pos
            /\ tmp_token' = t5.token
            /\ gdi' = [gdi EXCEPT !.rets = Append(@, FALSE),
                                  !.paths = Append(@, out.track_path),
                                  !.cursors = Append(@, t5.pos)]
  /\ UNCHANGED <<fd, errno, pc, first, fsys, cue, hist, tok, given, img, det>>

GdiNextNext == GdiNextFile

SpecGdiNext == GdiNextInit /\ [][GdiNextNext]_vars

\* The paths returned, the return values and the open stream of C10
GdiNextPaths ==
  /\ gdi.open
  /\ \A k \in 1..Len(gdi.rets) :
       IF k <= Len(given.entries)
       THEN /\ gdi.rets[k]
            /\ gdi.paths[k] = GdiPathOf(k)
       ELSE /\ ~gdi.rets[k]
            /\ gdi.paths[k] = IF k = 1 THEN PriorOut.track_path
                              ELSE gdi.paths[k - 1]
            /\ gdi.cursors[k] = Len(fd)

\* C10 as stated: from cursor 0, call k returns true with the path of
\* entry k and leaves the cursor at the start of entry k+1; every call
\* after the last entry returns false; the stream stays open.
GdiNextCursorAtEntry ==
  /\ GdiNextPaths
  /\ \A k \in 1..Min(Len(gdi.rets), Len(given.entries)) :
       gdi.cursors[k] = Len(GdiPrefix(given, k))

\* C10 amended: as above, but the cursor is left just past the one
\* delimiter that ends the entry's last token: only delimiters (the LF of a
\* CR LF line end) lie between it and the start of entry k+1.
GdiNextEnumerates ==
  /\ GdiNextPaths
  /\ \A k \in 1..Min(Len(gdi.rets), Len(given.entries)) :
       /\ gdi.cursors[k] <= Len(GdiPrefix(given, k))
       /\ gdi.cursors[k] >= Len(GdiPrefix(given, k)) - 1
       /\ SkipDelims(fd, gdi.cursors[k]) = Len(GdiPrefix(given, k))

\* Both entries of a CR LF playlist were returned in order, the first call
\* left the cursor on the LF before entry 2, and the third call returned
\* false
GdiNextEnumerated ==
  /\ Len(given.entries) = 2
  /\ given.entries[1].name # given.entries[2].name
  /\ given.eol = <<13, 10>>
  /\ gdi.rets = <<TRUE, TRUE, FALSE>>
  /\ gdi.paths[2] = GdiPathOf(2)
  /\ gdi.cursors[1] = Len(GdiPrefix(given, 1)) - 1

---------------------------------------------------------------------------
(* CUE sheets.  A sheet is a list of tracks; each track is an optional     *)
(*   FILE "name" BINARY                                                     *)
(* line (the first track always has one), then                              *)
(*   TRACK nn MODE1/2352   or   TRACK nn AUDIO                              *)
(*   INDEX 01 mm:ss:ff                                                      *)

MaxTracks == 2

kwFILE  == <<70, 73, 76, 69>>
kwTRACK == <<84, 82, 65, 67, 75>>
kwINDEX == <<73, 78, 68, 69, 88>>
kwAUDIO == <<65, 85, 68, 73, 79>>
kwBINARY == <<66, 73, 78, 65, 82, 89>>
kwMODE1 == <<77, 79, 68, 69, 49, 47, 50, 51, 53, 50>>

Dec2(n) == <<48 + (n \div 10), 48 + (n % 10)>>

\* mm:ss:ff; the empty stamp stands for a token that is no time stamp ("xx")
CueStamps == {<<0, 0, 0>>, <<0, 2, 0>>, <<>>}

CueStampBytes(ts) ==
  IF ts = <<>> THEN <<120, 120>>
  ELSE Dec2(ts[1]) \o <<58>> \o Dec2(ts[2]) \o <<58>> \o Dec2(ts[3])

CueTracks == [file : {<<>>} \cup FileNames, data : BOOLEAN, index : CueStamps]

CueTrackBytes(k, tr) ==
  (IF tr.file = <<>> THEN <<>>
   ELSE kwFILE \o <<32, 34>> \o tr.file \o <<34, 32>> \o kwBINARY \o <<10>>)
  \o kwTRACK \o <<32>> \o Dec2(k) \o <<32>>
  \o (IF tr.data THEN kwMODE1 ELSE kwAUDIO) \o <<10>>
  \o kwINDEX \o <<32>> \o Dec2(1) \o <<32>> \o CueStampBytes(tr.index)

RECURSIVE CuePrefix(_, _)
CuePrefix(g, k) ==
  IF k = 0 THEN <<>>
  ELSE CuePrefix(g, k - 1) \o CueTrackBytes(k, g.tracks[k]) \o
       (IF k = Len(g.tracks) /\ g.trail = "eof" THEN <<>> ELSE <<10>>)

CueRender(g) == CuePrefix(g, Len(g.tracks))

\* Sizes of the referenced files: x is missing, shorter than the 00:02:00
\* offset (352800), as long, or longer; y is missing or short
CueFsys ==
  {(fill_pathname_join(BaseDir, <<120>>) :> sx) @@
   (fill_pathname_join(BaseDir, <<121>>) :> sy) :
     sx \in {-1, 100, 352800, 352810, 705600, 1058400}, sy \in {-1, 1000}}

CueInit ==
  /\ given \in [tracks : {ts \in SeqsUpTo(CueTracks, MaxTracks) :
                            ts # <<>> /\ ts[1].file # <<>>},
                trail : {"nl", "eof"}]
  /\ fd = CueRender(given)
  /\ pos = 0
  /\ fsys \in CueFsys
  /\ first \in BOOLEAN
  /\ out = PriorOut
  /\ errno = 0
  /\ hist = <<>>
  /\ tmp_token = <<>>
  /\ cue = [last_file |-> <<>>, last_index |-> -1, cand_index |-> -1,
            cand_track |-> -1, track |-> 0, largest |-> 0, file_size |-> -1,
            is_data |-> FALSE, rv |-> 1, exit |-> "", open |-> TRUE]
  /\ pc = "cue_start"
  /\ gdi = Unused /\ tok = Unused /\ img = Unused /\ det = Unused

(* cue_find_track : src/tasks/task_database_cue.c:957-1089 *)

\* A 64-bit value is held as the signed reading of its bit pattern, so the
\* uint64_t value 2^64 - n is the integer -n.  Subtraction modulo 2^64 is
\* then integer subtraction, and the unsigned order puts every negative
\* reading above every non-negative one.
U64Gt(a, b) == IF (a < 0) = (b < 0) THEN a > b ELSE a < 0

Lower(c) == IF c \in 65..90 THEN c + 32 ELSE c

string_is_equal_noncase(a, b) ==
  /\ Len(a) = Len(b)
  /\ \A i \in 1..Len(a) : Lower(a[i]) = Lower(b[i])

\* One %02d of sscanf at cell i (1-based) of the buffer: one or two digits
ScanInt2(buf, i) ==
  IF i > Len(buf) \/ buf[i] \notin 48..57 THEN [ok |-> FALSE, val |-> 0, next |-> i]
  ELSE IF i + 1 <= Len(buf) /\ buf[i + 1] \in 48..57
  THEN [ok |-> TRUE, val |-> (buf[i] - 48) * 10 + (buf[i + 1] - 48), next |-> i + 2]
  ELSE [ok |-> TRUE, val |-> buf[i] - 48, next |-> i + 1]

ScanColon(buf, i) == i <= Len(buf) /\ buf[i] = 58

\* sscanf(tmp_token, "%02d:%02d:%02d", &m, &s, &f) < 3  is  ~ok
ScanStamp(buf) ==
  LET m == ScanInt2(buf, 1)
      s == ScanInt2(buf, m.next + 1)
      f == ScanInt2(buf, s.next + 1)
  IN  IF m.ok /\ ScanColon(buf, m.next) /\ s.ok /\ ScanColon(buf, s.next) /\ f.ok
      THEN [ok |-> TRUE, m |-> m.val, s |-> s.val, f |-> f.val]
      ELSE [ok |-> FALSE, m |-> 0, s |-> 0, f |-> 0]

\* last_index = (size_t) (((m * 60 + s) * 75) + f) * 2352;
StampBytes2048(m, s, f) == (((m * 60 + s) * 75) + f) * 2048
StampBytes(m, s, f) == (((m * 60 + s) * 75) + f) * 2352

\* update_cand (lines 937-955) on the locals c and the outputs o; h logs
\* every candidate it is handed with the end boundary used, p is the cursor
update_cand(c, o, h, p) ==
  IF c.cand_index # -1
  THEN LET span == c.last_index - c.cand_index
           h1 == Append(h, [start |-> c.cand_index, end |-> c.last_index,
                            path |-> c.last_file, pos |-> p])
       IN  IF U64Gt(span, c.largest)
           THEN [updated |-> TRUE,
                 cue |-> [c EXCEPT !.largest = span, !.cand_index = -1],
                 out |-> [o EXCEPT !.track_path = c.last_file,
                                   !.offset = c.cand_index, !.size = span],
                 hist |-> h1]
           ELSE [updated |-> FALSE, cue |-> [c EXCEPT !.cand_index = -1],
                 out |-> o, hist |-> h1]
  ELSE [updated |-> FALSE, cue |-> c, out |-> o, hist |-> h]

\* tmp_token[0] = '\0'; rv = -EINVAL;
CueStart ==
  /\ pc = "cue_start"
  /\ tmp_token' = <<0>>
  /\ cue' = [cue EXCEPT !.rv = -EINVAL]
  /\ pc' = "cue_loop"
  /\ UNCHANGED <<fd, pos, errno, first, fsys, gdi, out, hist, tok, given, img, det>>

\* clean: return rv;   error: return -errno;
CueReturn(how, value, t, c, o, h, e) ==
  /\ pc' = "done"
  /\ pos' = t.pos
  /\ tmp_token' = t.token
  /\ cue' = [c EXCEPT !.exit = how, !.open = FALSE]
  /\ out' = [o EXCEPT !.rv = value]
  /\ hist' = h
  /\ errno' = e

\* back to the top of the while loop
CueContinue(t, c, o, h, e) ==
  /\ pc' = "cue_loop"
  /\ pos' = t.pos
  /\ tmp_token' = t.token
  /\ cue' = c
  /\ out' = o
  /\ hist' = h
  /\ errno' = e

\* if (first) goto clean;
CueStopsNever(f) == FALSE
CueStops(f) == f

\* FILE: close the open candidate with the previous file's size, then read
\* the name and the type and size the new file
CueFile(t) ==
  \E u \in {update_cand(IF cue.file_size # -1
                         THEN [cue EXCEPT !.last_index = cue.file_size]
                         ELSE cue, out, hist, t.pos)} :
    \E c1 \in {IF u.updated THEN [u.cue EXCEPT !.rv = 0] ELSE u.cue} :
      IF u.updated /\ CueStops(first)
      THEN CueReturn("clean", c1.rv, t, c1, u.out, u.hist, errno)
      ELSE
        \E t2 \in {GetToken(fd, t.pos, t.token, MAX_TOKEN_LEN)} :
        \E t3 \in {GetToken(fd, t2.pos, t2.token, MAX_TOKEN_LEN)} :
        \E last_file \in {fill_pathname_join(BaseDir, CStr(t2.token))} :
        \E file_size \in {intfstream_get_file_size(last_file)} :
          CueContinue(t3, [c1 EXCEPT !.last_file = last_file,
                                     !.file_size = file_size],
                      u.out, u.hist, IF file_size = -1 THEN ENOENT ELSE errno)

\* TRACK: the number is read and dropped, the type decides is_data
CueTrack(t) ==
  \E t2 \in {GetToken(fd, t.pos, t.token, MAX_TOKEN_LEN)} :
  \E t3 \in {GetToken(fd, t2.pos, t2.token, MAX_TOKEN_LEN)} :
    CueContinue(t3, [cue EXCEPT
                       !.is_data = ~string_is_equal_noncase(CStr(t3.token), kwAUDIO),
                       !.track = @ + 1],
                out, hist, errno)

\* The candidate opened by an INDEX of a data track when none is open
CueOpenCand(c) ==
  IF c.is_data /\ c.cand_index = -1
  THEN [c EXCEPT !.cand_index = c.last_index, !.cand_track = c.track]
  ELSE c

\* INDEX: the time stamp becomes last_index; a candidate of another track
\* is closed with it
CueIndex(t) ==
  \E t2 \in {GetToken(fd, t.pos, t.token, MAX_TOKEN_LEN)} :
  \E t3 \in {GetToken(fd, t2.pos, t2.token, MAX_TOKEN_LEN)} :
  \E ts \in {ScanStamp(t3.token)} :
    IF ~ts.ok
    THEN CueReturn("error", -errno, t3, cue, out, hist, errno)
    ELSE
      \E c0 \in {[cue EXCEPT !.last_index = StampBytes(ts.m, ts.s, ts.f)]} :
        IF c0.cand_track # -1 /\ c0.track # c0.cand_track
        THEN \E u \in {update_cand(c0, out, hist, t3.pos)} :
             \E c1 \in {IF u.updated THEN [u.cue EXCEPT !.rv = 0] ELSE u.cue} :
               IF u.updated /\ CueStops(first)
               THEN CueReturn("clean", c1.rv, t3, c1, u.out, u.hist, errno)
               ELSE CueContinue(t3, CueOpenCand(c1), u.out, u.hist, errno)
        ELSE CueContinue(t3, CueOpenCand(c0), out, hist, errno)

\* End of the sheet: the last candidate is closed with the file's size
CueEnd(t) ==
  \E u \in {update_cand(IF cue.file_size # -1
                         THEN [cue EXCEPT !.last_index = cue.file_size]
                         ELSE cue, out, hist, t.pos)} :
    \E c1 \in {IF u.updated THEN [u.cue EXCEPT !.rv = 0] ELSE u.cue} :
      CueReturn("clean", c1.rv, t, c1, u.out, u.hist, errno)

\* One iteration of  while (get_token(fd, tmp_token, MAX_TOKEN_LEN) > 0)
CueStep ==
  /\ pc = "cue_loop"
  /\ \E t \in {GetToken(fd, pos, tmp_token, MAX_TOKEN_LEN)} :
       IF t.rv <= 0 THEN CueEnd(t)
       ELSE \E kw \in {CStr(t.token)} :
              IF string_is_equal_noncase(kw, kwFILE) THEN CueFile(t)
              ELSE IF string_is_equal_noncase(kw, kwTRACK) THEN CueTrack(t)
              ELSE IF string_is_equal_noncase(kw, kwINDEX) THEN CueIndex(t)
              ELSE CueContinue(t, cue, out, hist, errno)
  /\ UNCHANGED <<fd, first, fsys, gdi, tok, given, img, det>>

CueNext == CueStart \/ CueStep

SpecCue == CueInit /\ [][CueNext]_vars

(* The candidates of a scan, read off the log *)

CueSpan(k) == hist[k].end - hist[k].start

\* The first of the logged candidates with the greatest end - start
CueGreatest ==
  CHOOSE k \in 1..Len(hist) :
    \A j \in 1..Len(hist) :
      CueSpan(j) < CueSpan(k) \/ (CueSpan(j) = CueSpan(k) /\ k <= j)

CueReturned(k) ==
  /\ out.rv = 0
  /\ out.offset = hist[k].start
  /\ out.size = CueSpan(k)
  /\ out.track_path = hist[k].path

\* C1: with first=false, a scan that runs to the end of the sheet returns
\* the candidate whose size, end boundary minus start offset, is greatest
\* (the first of them on a tie), with that candidate's offset, size and
\* path.
CueReturnsGreatest ==
  (/\ pc = "done" /\ ~first /\ cue.exit = "clean"
   /\ \E k \in 1..Len(hist) : CueSpan(k) > 0)
  => CueReturned(CueGreatest)

\* The sheet of C2: one FILE, one data TRACK, one INDEX mm:ss:ff, and the
\* referenced file exists
CueSingle ==
  /\ Len(given.tracks) = 1
  /\ given.tracks[1].data
  /\ given.tracks[1].index # <<>>
  /\ fsys[fill_pathname_join(BaseDir, given.tracks[1].file)] >= 0

CueSinglePath == fill_pathname_join(BaseDir, given.tracks[1].file)
CueSingleS == fsys[CueSinglePath]
CueSingleOffset ==
  ((given.tracks[1].index[1] * 60 + given.tracks[1].index[2]) * 75
   + given.tracks[1].index[3]) * 2352

\* C2 as stated: success, offset ((mm*60+ss)*75+ff)*2352, size S - offset
\* and the path of the referenced file, whatever S is.
CueSingleAsStated ==
  (pc = "done" /\ CueSingle) =>
     /\ out.rv = 0
     /\ out.offset = CueSingleOffset
     /\ out.size = CueSingleS - CueSingleOffset
     /\ out.track_path = CueSinglePath

\* C2 amended: as stated when S differs from the offset, the size being
\* S - offset modulo 2^64 (a negative reading is the wrapped value of a file
\* shorter than the offset); when S equals the offset the scan returns
\* -EINVAL and leaves the outputs alone.
CueSingleResult ==
  (pc = "done" /\ CueSingle) =>
     IF CueSingleS = CueSingleOffset
     THEN out = [PriorOut EXCEPT !.rv = -EINVAL]
     ELSE /\ out.rv = 0
          /\ out.offset = CueSingleOffset
          /\ out.size = CueSingleS - CueSingleOffset
          /\ out.track_path = CueSinglePath

\* The sheet of C2 with INDEX 00:02:00 and a file of 352810 bytes gave
\* offset 352800 and size 10
CueSingleSeen ==
  /\ pc = "done" /\ CueSingle
  /\ given.tracks[1].index = <<0, 2, 0>>
  /\ CueSingleS = 352810
  /\ out = [rv |-> 0, offset |-> 352800, size |-> 10,
            track_path |-> CueSinglePath]

\* C3 as stated: with first=true the first candidate handed an end
\* boundary is the result, and the scan stops where it was handed it.
CueFirstAsStated ==
  (pc = "done" /\ first /\ cue.exit = "clean" /\ hist # <<>>) =>
     /\ CueReturned(1)
     /\ Len(hist) = 1
     /\ pos = hist[1].pos

\* C3 amended: with first=true the result is the first candidate whose end
\* boundary differs from its start offset; candidates before it, of size 0,
\* are dropped and the scan goes on; the scan stops at the directive that
\* supplied the boundary (the cursor is where it was then, and no later
\* candidate is looked at); with no such candidate the scan returns -EINVAL
\* and leaves the outputs alone.
CueFirstStops ==
  (pc = "done" /\ first /\ cue.exit = "clean") =>
     IF \A k \in 1..Len(hist) : CueSpan(k) = 0
     THEN out = [PriorOut EXCEPT !.rv = -EINVAL] /\ pos = Len(fd)
     ELSE /\ \A k \in 1..(Len(hist) - 1) : CueSpan(k) = 0
          /\ CueReturned(Len(hist))
          /\ pos = hist[Len(hist)].pos

\* A first=true scan dropped a candidate of size 0 and returned the next
\* one, stopping where that one was handed its end boundary
CueFirstStopped ==
  /\ pc = "done" /\ first /\ cue.exit = "clean"
  /\ Len(hist) = 2 /\ CueSpan(1) = 0 /\ CueSpan(2) > 0
  /\ CueReturned(2)
  /\ pos = hist[2].pos

---------------------------------------------------------------------------
(* The binary disc image and the C library calls of the detectors *)

\* The image is its length and the bytes that are not zero
ByteAt(im, o) == IF o \in DOMAIN im.bytes THEN im.bytes[o] ELSE 0

\* The bytes s laid at offset off
Place(off, s) == [o \in off..(off + Len(s) - 1) |-> s[o - off + 1]]

Zeros(n) == [k \in 1..n |-> 0]

\* A local array of the stack before anything is stored in it: every cell
\* holds the byte g the stack happens to hold
Local(size, g) == [k \in 1..size |-> g]

\* Overwrite the cells i, i+1, ... (0-based) of a buffer with the bytes s
Store(buf, i, s) ==
  [k \in 1..Max(Len(buf), i + Len(s)) |->
     IF k - 1 >= i /\ k - 1 < i + Len(s) THEN s[k - i] ELSE buf[k]]

\* intfstream_seek(fd, off, SEEK_SET) followed by intfstream_read(fd, buf, n):
\* the bytes between off and the end of the image, n at most, are stored at
\* the start of buf, the rest of buf is left alone; n is the count read
intfstream_read(im, off, buf, n) ==
  LET cnt == Min(n, Max(0, im.len - off))
  IN  [n |-> cnt,
       buf |-> Store(buf, 0, [k \in 1..cnt |-> ByteAt(im, off + k - 1)])]

\* The C string that starts at cell i (0-based)
CStrAt(buf, i) == CStrFrom(buf, i + 1)

strlen(buf) == Len(CStr(buf))

\* strncpy(dst + di, s, n) for n >= 0: at most n bytes of the string s,
\* padded with NULs up to n; no terminator when s has n bytes or more
strncpy(dst, di, s, n) ==
  IF n <= 0 THEN dst
  ELSE Store(dst, di, Slice(s, 1, n) \o Zeros(n - Min(n, Len(s))))

\* strcat(dst, s)
strcat(dst, s) == Store(dst, strlen(dst), s \o <<0>>)

\* memcmp(a, b, n) == 0
memcmp0(a, b, n) == \A k \in 1..n : a[k] = b[k]

\* isspace in the C locale
isspace(c) == c \in {32, 9, 10, 11, 12, 13}

---------------------------------------------------------------------------
(* detect_system : src/tasks/task_database_cue.c:896-922 *)

NULL == "(null)"

\* "PSP GAME", "PLAYSTATION", c2 33 9f 3d, "SEGADISCSYSTEM",
\* "SEGA SEGASATURN", "SEGA SEGAKATANA"
MAGIC_NUMBERS ==
  << [offset |-> 32776, system_name |-> "psp", length_magic |-> 8,
      magic |-> <<80, 83, 80, 32, 71, 65, 77, 69>>],
     [offset |-> 32776, system_name |-> "ps1", length_magic |-> 11,
      magic |-> <<80, 76, 65, 89, 83, 84, 65, 84, 73, 79, 78>>],
     [offset |-> 28, system_name |-> "gc", length_magic |-> 4,
      magic |-> <<194, 51, 159, 61>>],
     [offset |-> 0, system_name |-> "scd", length_magic |-> 14,
      magic |-> <<83, 69, 71, 65, 68, 73, 83, 67, 83, 89, 83, 84, 69, 77>>],
     [offset |-> 0, system_name |-> "sat", length_magic |-> 15,
      magic |-> <<83, 69, 71, 65, 32, 83, 69, 71, 65, 83, 65, 84, 85, 82, 78>>],
     [offset |-> 0, system_name |-> "dc", length_magic |-> 15,
      magic |-> <<83, 69, 71, 65, 32, 83, 69, 71, 65, 75, 65, 84, 65, 78, 65>>],
     [offset |-> 0, system_name |-> NULL, length_magic |-> 0, magic |-> <<>>] >>

\* char magic[50];
MagicSize == 50

\* What the image holds at the three offsets of the table
SysAt0 == {MAGIC_NUMBERS[4].magic \o <<0>>, MAGIC_NUMBERS[5].magic,
           MAGIC_NUMBERS[6].magic, Zeros(15)}
SysAt1c == {MAGIC_NUMBERS[3].magic, Zeros(4)}
SysAt8008 == {MAGIC_NUMBERS[1].magic \o Zeros(3), MAGIC_NUMBERS[2].magic,
              Zeros(11)}

\* Image lengths: empty, inside the first magic, around the offsets
SysLens == {0, 10, 14, 15, 30, 32, 32784, 32786, 32787}

SysImages ==
  {[len |-> l, bytes |-> Place(0, a) @@ Place(28, b) @@ Place(32776, c)] :
     l \in SysLens, a \in SysAt0, b \in SysAt1c, c \in SysAt8008}

\* What the stack holds where magic[] is placed: zeros, or the bytes an
\* earlier call left there
SysStacks ==
  {Zeros(MagicSize)} \cup
  {MAGIC_NUMBERS[k].magic \o Zeros(MagicSize - MAGIC_NUMBERS[k].length_magic) :
     k \in {2, 4, 5}}

SysInit ==
  /\ img \in SysImages
  /\ det \in {[i |-> 1, magic |-> m, rv |-> 0, system_name |-> NULL] :
                m \in SysStacks}
  /\ pc = "sys_loop"
  /\ fd = Unused /\ pos = 0 /\ tmp_token = Unused /\ errno = 0
  /\ first = FALSE /\ fsys = Unused /\ cue = Unused /\ gdi = Unused
  /\ out = Unused /\ hist = Unused /\ tok = Unused /\ given = Unused

\* if (intfstream_read(fd, magic, length_magic) > 0)
SysReadOk(n, length_magic) == n > 0

\* One iteration of the for loop on entry det.i
SysEntry ==
  /\ pc = "sys_loop"
  /\ MAGIC_NUMBERS[det.i].system_name # NULL
  /\ \E e \in {MAGIC_NUMBERS[det.i]} :
     \E r \in {intfstream_read(img, e.offset, det.magic, e.length_magic)} :
       IF SysReadOk(r.n, e.length_magic)
       THEN \E m \in {Store(r.buf, e.length_magic, <<0>>)} :
              IF memcmp0(e.magic, m, e.length_magic)
              THEN /\ det' = [det EXCEPT !.magic = m, !.rv = 1,
                                         !.system_name = e.system_name]
                   /\ pc' = "done"
              ELSE /\ det' = [det EXCEPT !.magic = m, !.i = @ + 1]
                   /\ pc' = "sys_loop"
       ELSE /\ det' = [det EXCEPT !.magic = r.buf, !.i = @ + 1]
            /\ pc' = "sys_loop"
  /\ UNCHANGED <<fd, pos, tmp_token, errno, first, fsys, cue, gdi, out, hist,
                 tok, given, img>>

\* The loop ends on the entry whose system_name is NULL:  return false;
SysEnd ==
  /\ pc = "sys_loop"
  /\ MAGIC_NUMBERS[det.i].system_name = NULL
  /\ det' = [det EXCEPT !.rv = 0]
  /\ pc' = "done"
  /\ UNCHANGED <<fd, pos, tmp_token, errno, first, fsys, cue, gdi, out, hist,
                 tok, given, img>>

SysNext == SysEntry \/ SysEnd

SpecSys == SysInit /\ [][SysNext]_vars

\* Entry k's magic bytes are all in the image at entry k's offset
SysPresent(k) ==
  /\ MAGIC_NUMBERS[k].offset + MAGIC_NUMBERS[k].length_magic <= img.len
  /\ \A j \in 1..MAGIC_NUMBERS[k].length_magic :
        ByteAt(img, MAGIC_NUMBERS[k].offset + j - 1) = MAGIC_NUMBERS[k].magic[j]

SysEntries == {k \in 1..Len(MAGIC_NUMBERS) : MAGIC_NUMBERS[k].system_name # NULL}

\* C5: detect_system returns the system name of the first table entry, in
\* declaration order, whose magic bytes are present at its offset, and
\* not-found when no entry's bytes are present ("PSP GAME" at 0x8008 gives
\* psp, "PLAYSTATION" at 0x8008 gives ps1).
SysFirstPresent ==
  pc = "done" =>
    IF \E k \in SysEntries : SysPresent(k)
    THEN /\ det.rv = 1
         /\ \E k \in SysEntries :
              /\ SysPresent(k)
              /\ \A j \in SysEntries : SysPresent(j) => k <= j
              /\ det.system_name = MAGIC_NUMBERS[k].system_name
    ELSE det.rv = 0 /\ det.system_name = NULL

---------------------------------------------------------------------------
(* The serial decoders and their caller *)

\* What a decoder hands back: the return value, whether the call ran off
\* its buffers (a copy of size_t(-1) bytes), and the caller's game_id buffer
SerialResult(rv, fault, game_id) ==
  [rv |-> rv, fault |-> fault, game_id |-> game_id]

strMK == <<77, 75, 45>>          \* "MK-"
strT == <<84, 45>>               \* "T-"
strG == <<71, 45>>               \* "G-"
str50 == <<53, 48>>              \* "50"
strHyp50 == <<45, 53, 48>>       \* "-50"

(* remove_spaces : src/tasks/task_database_cue.c:393-405 *)

RECURSIVE remove_spaces_from(_, _, _, _)
remove_spaces_from(str_trimmed, j, str_untrimmed, i) ==
  IF str_untrimmed[i + 1] = 0 THEN Store(str_trimmed, j, <<0>>)
  ELSE IF ~isspace(str_untrimmed[i + 1])
  THEN remove_spaces_from(Store(str_trimmed, j, <<str_untrimmed[i + 1]>>),
                          j + 1, str_untrimmed, i + 1)
  ELSE remove_spaces_from(str_trimmed, j, str_untrimmed, i + 1)

remove_spaces(str_trimmed, str_untrimmed) ==
  remove_spaces_from(str_trimmed, 0, str_untrimmed, 0)

(* index_last_occurance : src/tasks/task_database_cue.c:407-412 *)

index_last_occurance(str, t) ==
  LET hits == {i \in 0..(strlen(str) - 1) : str[i + 1] = t}
  IN  IF hits = {} THEN -1 ELSE CHOOSE i \in hits : \A h \in hits : h <= i

(* left_and_right_trim_spaces : src/tasks/task_database_cue.c:491-508 *)

TrimBlank(c) == c = 32 \/ c = 9

\* for(i=0;s[i]==' '||s[i]=='\t';i++);
RECURSIVE TrimSkip(_, _)
TrimSkip(s, i) == IF TrimBlank(s[i + 1]) THEN TrimSkip(s, i + 1) ELSE i

\* for(j=0;s[i];i++) s[j++]=s[i];
RECURSIVE TrimShift(_, _, _)
TrimShift(s, i, j) ==
  IF s[i + 1] = 0 THEN [s |-> s, j |-> j]
  ELSE TrimShift(Store(s, j, <<s[i + 1]>>), i + 1, j + 1)

\* for(i=0;s[i]!='\0';i++) if(s[i]!=' '&& s[i]!='\t') j=i;
RECURSIVE TrimLast(_, _, _)
TrimLast(s, i, j) ==
  IF s[i + 1] = 0 THEN j
  ELSE TrimLast(s, i + 1, IF ~TrimBlank(s[i + 1]) THEN i ELSE j)

left_and_right_trim_spaces(s) ==
  LET sh == TrimShift(s, TrimSkip(s, 0), 0)
      s1 == Store(sh.s, sh.j, <<0>>)
  IN  Store(s1, TrimLast(s1, 0, sh.j) + 1, <<0>>)

(* detect_scd_game : src/tasks/task_database_cue.c:414-489 *)

\* g is the byte the stack holds in the cells of the local arrays
detect_scd_game(im, game_id, g) ==
  LET r == intfstream_read(im, 387, Local(50, g), 11)
  IN  IF r.n <= 0 THEN SerialResult(0, FALSE, game_id)
      ELSE
      LET raw_game_id == Store(r.buf, 11, <<0>>)
          pre_game_id == remove_spaces(Local(50, g), raw_game_id)
          length == strlen(pre_game_id)
          lengthref == length - 2
          check_prefix_t_hyp ==
            Store(strncpy(Local(10, g), 0, CStr(pre_game_id), 2), 2, <<0>>)
          check_prefix_g_hyp ==
            Store(strncpy(Local(10, g), 0, CStr(pre_game_id), 2), 2, <<0>>)
          check_prefix_mk_hyp ==
            Store(strncpy(Local(10, g), 0, CStr(pre_game_id), 3), 3, <<0>>)
          check_suffix_50 ==
            Store(IF length - 2 + 1 > 0
                  THEN strncpy(Local(10, g), 0, CStrAt(pre_game_id, lengthref),
                               length - 2 + 1)
                  ELSE Local(10, g), 2, <<0>>)
          index == index_last_occurance(pre_game_id, 45)
          lgame_id ==
            Store(strncpy(Local(10, g), 0, CStrAt(pre_game_id, 3), 4), 4, <<0>>)
      IN  IF length - 2 + 1 < 0
          THEN SerialResult(0, TRUE, game_id)   \* strncpy of size_t(-1) bytes
          ELSE IF CStr(check_prefix_t_hyp) = strT \/ CStr(check_prefix_g_hyp) = strG
          THEN IF index = -1 THEN SerialResult(0, FALSE, game_id)
               ELSE SerialResult(1, FALSE,
                                 strncpy(game_id, 0, CStr(pre_game_id), index))
          ELSE IF CStr(check_prefix_mk_hyp) = strMK
          THEN IF CStr(check_suffix_50) = str50
               THEN SerialResult(1, FALSE,
                      strcat(strcat(game_id, CStr(lgame_id)), strHyp50))
               ELSE SerialResult(1, FALSE,
                      strncpy(game_id, 0, CStrAt(pre_game_id, 3), 4))
          ELSE SerialResult(0, FALSE, game_id)

(* detect_sat_game : src/tasks/task_database_cue.c:510-597 *)

\* if (intfstream_read(fd, raw_region_id, 1) > 0) raw_game_id[1] = '\0';
SatRegionTerminate(raw_game_id) == Store(raw_game_id, 1, <<0>>)

detect_sat_game(im, game_id, g) ==
  LET r == intfstream_read(im, 32, Local(50, g), 9)
  IN  IF r.n <= 0 THEN SerialResult(0, FALSE, game_id)
      ELSE
      LET raw0 == Store(r.buf, 9, <<0>>)
          rr == intfstream_read(im, 64, Local(10, g), 1)
          raw1 == IF rr.n > 0 THEN SatRegionTerminate(raw0) ELSE raw0
          region_id == rr.buf[1]
          raw_game_id == left_and_right_trim_spaces(raw1)
          check_prefix_mk_hyp ==
            Store(strncpy(Local(10, g), 0, CStr(raw_game_id), 3), 3, <<0>>)
          length == strlen(raw_game_id)
          lgame_id ==
            Store(strncpy(Local(10, g), 0, CStr(raw_game_id), 2), 2, <<0>>)
          rgame_id ==
            Store(strncpy(Local(10, g), 0, CStrAt(raw_game_id, 2), length - 1),
                  length - 1, <<0>>)
      IN  IF region_id = 85                                         \* 'U'
          THEN IF CStr(check_prefix_mk_hyp) = strMK
               THEN SerialResult(1, FALSE,
                      Store(strncpy(game_id, 0, CStrAt(raw_game_id, 3),
                                    length - 3), length - 3, <<0>>))
               ELSE SerialResult(1, FALSE,
                      Store(strncpy(game_id, 0, CStr(raw_game_id), length),
                            length, <<0>>))
          ELSE IF region_id = 69                                    \* 'E'
          THEN IF length - 1 < 0
               THEN SerialResult(0, TRUE, game_id)  \* strncpy of size_t(-1) bytes
               ELSE SerialResult(1, FALSE,
                      strcat(strcat(strcat(game_id, CStr(lgame_id)),
                                    CStr(rgame_id)), strHyp50))
          ELSE IF region_id = 74                                    \* 'J'
          THEN SerialResult(1, FALSE,
                 Store(strncpy(game_id, 0, CStr(raw_game_id), length),
                       length, <<0>>))
          ELSE SerialResult(0, FALSE, game_id)

---------------------------------------------------------------------------
(* A caller that runs one decoder twice on the same image, handing the    *)
(* second run the game_id buffer as the first run left it                 *)

\* The 9 bytes at 0x20 of a Saturn image
SatHeaders ==
  {
   <<77, 75, 45, 56, 49, 48, 54, 48, 32>>,              \* "MK-81060 "
   <<32, 77, 75, 45, 56, 49, 48, 54, 32>>,              \* " MK-8106 "
   <<84, 45, 49, 50, 51, 52, 71, 32, 32>>,              \* "T-1234G  "
   <<71, 83, 45, 57, 48, 55, 54, 32, 32>>,              \* "GS-9076  "
   <<32, 32, 32, 32, 32, 32, 32, 32, 32>>               \* "         "
  }

\* The byte at 0x40: U, E, J, T
SatRegions == {85, 69, 74, 84}

\* Image lengths: no header, part of it, no region byte, everything
SatLens == {32, 36, 64, 65}

SatImages ==
  {[len |-> l, bytes |-> Place(32, h) @@ Place(64, <<r>>)] :
     l \in SatLens, h \in SatHeaders, r \in SatRegions}

\* The 11 bytes at 0x183 of a Sega CD image
ScdHeaders ==
  {
   <<77, 75, 45, 52, 52, 48, 55, 45, 53, 48, 32>>,      \* "MK-4407-50 "
   <<77, 75, 45, 52, 52, 48, 49, 32, 32, 32, 32>>,      \* "MK-4401    "
   <<84, 45, 49, 50, 51, 52, 53, 45, 48, 48, 32>>,      \* "T-12345-00 "
   <<71, 45, 54, 48, 49, 52, 32, 32, 32, 32, 32>>,      \* "G-6014     "
   <<84, 54, 48, 49, 52, 32, 32, 32, 32, 32, 32>>,      \* "T6014      "
   <<32, 32, 32, 32, 32, 32, 32, 32, 32, 32, 32>>       \* "           "
  }

ScdLens == {387, 390, 398}

ScdImages == {[len |-> l, bytes |-> Place(387, h)] : l \in ScdLens, h \in ScdHeaders}

\* The caller's game_id buffer before the first run: zeroed, or holding "ZZ"
PriorIds == {Zeros(32), <<90, 90>> \o Zeros(30)}

\* The byte the stack holds in a decoder's local arrays: NUL, space, 'U'
StackFill == {0, 32, 85}

SerialInit ==
  /\ \E sys \in {"sat", "scd"} :
       /\ img \in (IF sys = "sat" THEN SatImages ELSE ScdImages)
       /\ det \in {[system |-> sys, game_id |-> id, results |-> <<>>] :
                     id \in PriorIds}
  /\ pc = "call"
  /\ fd = Unused /\ pos = 0 /\ tmp_token = Unused /\ errno = 0
  /\ first = FALSE /\ fsys = Unused /\ cue = Unused /\ gdi = Unused
  /\ out = Unused /\ hist = Unused /\ tok = Unused /\ given = Unused

\* The caller takes the return value and the string in game_id; a run that
\* ran off its buffers is the last one
SerialReturn(r) ==
  /\ det' = [det EXCEPT
               !.game_id = r.game_id,
               !.results = Append(@, [rv |-> r.rv, fault |-> r.fault,
                                      id |-> CStr(r.game_id)])]
  /\ pc' = IF r.fault \/ Len(det.results) = 1 THEN "done" ELSE "call"
  /\ UNCHANGED <<fd, pos, tmp_token, errno, first, fsys, cue, gdi, out, hist,
                 tok, given, img>>

DetectSat ==
  /\ pc = "call" /\ det.system = "sat"
  /\ \E g \in StackFill :
       \E r \in {detect_sat_game(img, det.game_id, g)} : SerialReturn(r)

DetectScd ==
  /\ pc = "call" /\ det.system = "scd"
  /\ \E g \in StackFill :
       \E r \in {detect_scd_game(img, det.game_id, g)} : SerialReturn(r)

SerialNext == DetectSat \/ DetectScd

SpecSerial == SerialInit /\ [][SerialNext]_vars

(* What the image holds, computed from the image alone *)

SatHeader == [k \in 1..9 |-> ByteAt(img, 32 + k - 1)]

RECURSIVE StripLead(_)
StripLead(s) ==
  IF s # <<>> /\ TrimBlank(s[1]) THEN StripLead(Tail(s)) ELSE s

RECURSIVE StripTrail(_)
StripTrail(s) ==
  IF s # <<>> /\ TrimBlank(s[Len(s)])
  THEN StripTrail(SubSeq(s, 1, Len(s) - 1)) ELSE s

SatTrimmed == StripTrail(StripLead(SatHeader))

SatSerialU ==
  IF Slice(SatTrimmed, 1, 3) = strMK
  THEN Slice(SatTrimmed, 4, Len(SatTrimmed)) ELSE SatTrimmed

\* C8: for an image that holds the header and the region byte 'U',
\* detect_sat_game returns success with the header serial trimmed of blanks
\* and with a leading "MK-" removed ("MK-81060" between blanks gives
\* "81060").
SatSerialForU ==
  (/\ det.system = "sat" /\ img.len >= 65 /\ ByteAt(img, 64) = 85
   /\ Len(det.results) >= 1)
  => /\ det.results[1].rv = 1
     /\ det.results[1].id = SatSerialU

\* C9: two runs of a decoder on the same image give the same return value
\* and the same output string, whatever game_id and the local arrays held
\* before each run.
SerialIdempotent ==
  Len(det.results) = 2 => det.results[1] = det.results[2]

---------------------------------------------------------------------------
(* Sizes, errors and buffer limits of the scanners and of detect_system *)

\* C11: every size cue_find_track records is end boundary minus start
\* offset with the end at or after the start, a non-negative byte count;
\* no sheet and file size give a size that is the 64-bit wrap-around of a
\* negative span.
CueSizeNeverWraps == cue.largest >= 0

\* C12: when the time stamp of an INDEX does not parse as mm:ss:ff,
\* cue_find_track returns a non-zero value, whatever errno holds.
CueBadStampFails ==
  (pc = "done" /\ cue.exit = "error") => out.rv # 0

\* C13: a scan that ends with an error leaves the caller's offset, size
\* and track_path as they were before the call, even when an earlier
\* directive had resolved a track.
CueErrorLeavesOutputs ==
  (pc = "done" /\ cue.exit = "error") =>
     /\ out.offset = PriorOut.offset
     /\ out.size = PriorOut.size
     /\ out.track_path = PriorOut.track_path

\* rv = -EINVAL;  the value a scan returns when nothing was resolved
GdiNotFoundRv == -EINVAL

\* C14: the value returned for a well-formed playlist without a data track
\* is not the success value, and the value returned for a parse error (a
\* tuple with a missing field) is neither the success value nor the value
\* returned for not-found.
GdiOutcomesDistinct ==
  pc = "done" =>
     /\ (given.trail = "nl" /\ GdiDataTracks = {}) =>
           (out.rv = GdiNotFoundRv /\ out.rv # 0)
     /\ (given.trail = "short" /\ errno = EINVAL) =>
           (out.rv # 0 /\ out.rv # GdiNotFoundRv)

\* C15: detect_system reports an entry as matched only when all
\* length_magic bytes of its magic are in the image at its offset; a short
\* read and bytes left in magic[] never make a match.
SysMatchIsReal ==
  (pc = "done" /\ det.rv = 1) => SysPresent(det.i)

\* C18: every byte get_token stores, the terminating NUL included, goes to
\* token[0 .. max_len-1].
TokWritesInside == Len(tmp_token) <= tok.max_len

---------------------------------------------------------------------------
(* detect_dc_game and its helpers : src/tasks/task_database_cue.c:599-847 *)

strHDR == <<72, 68, 82, 45>>      \* "HDR-"
strBareT == <<84>>               \* "T"
strHyphen == <<45>>              \* "-"

\* count_occurances_single_character (lines 599-612)
count_occurances_single_character(str, t) ==
  Cardinality({i \in 1..strlen(str) : str[i] = t})

\* replace_space_with_single_character (lines 614-630)
replace_space_with_single_character(str, t) ==
  Store(str, 0, [i \in 1..strlen(str) |-> IF isspace(str[i]) THEN t ELSE str[i]]
                \o <<0>>)

\* while (*str == ' ' && *(str + 1) == ' ') str++;  *dest++ = *str++;
RECURSIVE MultiSpace(_)
MultiSpace(s) ==
  IF s = <<>> THEN <<>>
  ELSE IF s[1] = 32 /\ Len(s) >= 2 /\ s[2] = 32 THEN MultiSpace(Tail(s))
  ELSE <<s[1]>> \o MultiSpace(Tail(s))

\* replace_multi_space_with_single_space (lines 632-645)
replace_multi_space_with_single_space(str) ==
  Store(str, 0, MultiSpace(CStr(str)) \o <<0>>)

\* if (length <= 8) ... else if (length >= 9) { ... }  in the MK- branch:
\* the second block has no return and falls to  return false;
DcMkLongRv == 0

\* strcat(game_id, lgame_id); strcat(game_id, hyphen_str);
\* strcat(game_id, rgame_id);
DcJoin(game_id, lgame_id, rgame_id) ==
  strcat(strcat(strcat(game_id, CStr(lgame_id)), strHyphen), CStr(rgame_id))

\* strncpy(dst, src, n); dst[n] = '\0';  on a fresh local array of 20 bytes
DcPart(g, s, n) == Store(strncpy(Local(20, g), 0, s, n), n, <<0>>)

detect_dc_game(im, game_id, g) ==
  LET r == intfstream_read(im, 64, Local(50, g), 10)
  IN  IF r.n <= 0 THEN SerialResult(0, FALSE, game_id)
      ELSE
      LET raw0 == Store(r.buf, 10, <<0>>)
          raw_game_id ==
            replace_space_with_single_character(
              replace_multi_space_with_single_space(
                left_and_right_trim_spaces(raw0)), 45)
          length == strlen(raw_game_id)
          total_hyphens == count_occurances_single_character(raw_game_id, 45)
          check_prefix_t_hyp == CStr(Store(strncpy(Local(10, g), 0, CStr(raw_game_id), 2), 2, <<0>>))
          check_prefix_t == CStr(Store(strncpy(Local(10, g), 0, CStr(raw_game_id), 1), 1, <<0>>))
          check_prefix_hdr_hyp == CStr(Store(strncpy(Local(10, g), 0, CStr(raw_game_id), 4), 4, <<0>>))
          check_prefix_mk_hyp == CStr(Store(strncpy(Local(10, g), 0, CStr(raw_game_id), 3), 3, <<0>>))
          index == index_last_occurance(raw_game_id, 45)
          \* the bare T branch: "T" "-" and the rest, appended to the
          \* local array pre_game_id as the stack left it
          pre_game_id ==
            DcJoin(Local(50, g), DcPart(g, CStr(raw_game_id), 1),
                   DcPart(g, CStrAt(raw_game_id, 1), length - 1))
          total_hyphens_recalc == count_occurances_single_character(pre_game_id, 45)
          index_recalc == index_last_occurance(pre_game_id, 45)
      IN  IF check_prefix_t_hyp = strT
          THEN IF total_hyphens >= 2
               THEN IF index < 0 THEN SerialResult(0, FALSE, game_id)
                    ELSE SerialResult(1, FALSE,
                           DcJoin(game_id, DcPart(g, CStr(raw_game_id), index),
                                  DcPart(g, CStrAt(raw_game_id, index + 1),
                                         length - 1)))
               ELSE IF total_hyphens = 1
               THEN IF length <= 7
                    THEN SerialResult(1, FALSE,
                           Store(strncpy(game_id, 0, CStr(raw_game_id), 7), 7, <<0>>))
                    ELSE SerialResult(1, FALSE,
                           DcJoin(game_id, DcPart(g, CStr(raw_game_id), 7),
                                  DcPart(g, CStrAt(raw_game_id, length - 2),
                                         length - 1)))
               ELSE SerialResult(0, FALSE, game_id)
          ELSE IF check_prefix_t = strBareT
          THEN IF g # 0
               THEN SerialResult(0, TRUE, game_id)  \* strcat on an array without NUL
               ELSE IF total_hyphens_recalc >= 2
               THEN IF index_recalc < 0 THEN SerialResult(0, FALSE, game_id)
                    ELSE SerialResult(1, FALSE,
                           DcJoin(game_id, DcPart(g, CStr(pre_game_id), index_recalc),
                                  DcPart(g, CStrAt(pre_game_id, strlen(pre_game_id) - 2),
                                         strlen(pre_game_id) - 1)))
               ELSE IF total_hyphens_recalc = 1
               THEN IF strlen(pre_game_id) - 1 <= 8
                    THEN SerialResult(1, FALSE,
                           Store(strncpy(game_id, 0, CStr(pre_game_id), 9), 9, <<0>>))
                    ELSE SerialResult(1, FALSE,
                           DcJoin(game_id, DcPart(g, CStr(pre_game_id), 7),
                                  DcPart(g, CStrAt(pre_game_id, strlen(pre_game_id) - 1 - 2),
                                         strlen(pre_game_id) - 1 - 1)))
               ELSE SerialResult(0, FALSE, game_id)
          ELSE IF check_prefix_hdr_hyp = strHDR
          THEN IF total_hyphens >= 2
               THEN IF index < 0 THEN SerialResult(0, FALSE, game_id)
                    ELSE SerialResult(1, FALSE,
                           DcJoin(game_id, DcPart(g, CStr(raw_game_id), index - 1),
                                  DcPart(g, CStrAt(raw_game_id, length - 4),
                                         length - 3)))
               ELSE SerialResult(1, FALSE,
                      Store(game_id, 0, CStr(raw_game_id) \o <<0>>))
          ELSE IF check_prefix_mk_hyp = strMK
          THEN IF length <= 8
               THEN SerialResult(1, FALSE,
                      Store(strncpy(game_id, 0, CStr(raw_game_id), 8), 8, <<0>>))
               ELSE SerialResult(DcMkLongRv, FALSE,
                      DcJoin(game_id, DcPart(g, CStr(raw_game_id), 8),
                             DcPart(g, CStrAt(raw_game_id, length - 2),
                                    length - 1)))
          ELSE SerialResult(0, FALSE, game_id)

\* The 10 bytes at 0x40 of a Dreamcast image
DcHeaders ==
  {
   <<84, 45, 52, 48, 50, 48, 49, 78, 32, 32>>,          \* "T-40201N  "
   <<84, 45, 49, 50, 51, 52, 32, 32, 32, 32>>,          \* "T-1234    "
   <<84, 45, 49, 50, 32, 51, 52, 32, 65, 66>>,          \* "T-12 34 AB"
   <<84, 49, 50, 51, 52, 32, 32, 32, 32, 32>>,          \* "T1234     "
   <<84, 49, 50, 51, 52, 53, 54, 55, 56, 78>>,          \* "T12345678N"
   <<84, 49, 50, 32, 51, 52, 32, 32, 32, 32>>,          \* "T12 34    "
   <<72, 68, 82, 45, 48, 48, 48, 49, 32, 32>>,          \* "HDR-0001  "
   <<72, 68, 82, 45, 48, 48, 45, 48, 49, 77>>,          \* "HDR-00-01M"
   <<77, 75, 45, 53, 49, 48, 51, 53, 32, 32>>,          \* "MK-51035  "
   <<77, 75, 45, 53, 49, 48, 51, 53, 53, 48>>,          \* "MK-5103550"
   <<71, 83, 45, 49, 50, 51, 52, 32, 32, 32>>,          \* "GS-1234   "
   <<32, 32, 32, 32, 32, 32, 32, 32, 32, 32>>           \* "          "
  }

\* Image lengths: no header, part of it, all of it
DcLens == {64, 68, 74}

DcImages == {[len |-> l, bytes |-> Place(64, h)] : l \in DcLens, h \in DcHeaders}

DcInit ==
  /\ img \in DcImages
  /\ det \in {[system |-> "dc", game_id |-> id, results |-> <<>>] :
                id \in PriorIds}
  /\ pc = "call"
  /\ fd = Unused /\ pos = 0 /\ tmp_token = Unused /\ errno = 0
  /\ first = FALSE /\ fsys = Unused /\ cue = Unused /\ gdi = Unused
  /\ out = Unused /\ hist = Unused /\ tok = Unused /\ given = Unused

DetectDc ==
  /\ pc = "call" /\ det.system = "dc"
  /\ \E g \in StackFill :
       \E r \in {detect_dc_game(img, det.game_id, g)} : SerialReturn(r)

DcNext == DetectDc

SpecDc == DcInit /\ [][DcNext]_vars

(* What the image holds, computed from the image alone *)

DcHeader == [k \in 1..10 |-> ByteAt(img, 64 + k - 1)]

\* Trimmed, runs of spaces collapsed, white space replaced by hyphens
DcNormalized ==
  LET t == MultiSpace(StripTrail(StripLead(DcHeader)))
  IN  [i \in 1..Len(t) |-> IF isspace(t[i]) THEN 45 ELSE t[i]]

DcClassified ==
  \/ Slice(DcNormalized, 1, 1) = strBareT
  \/ Slice(DcNormalized, 1, 4) = strHDR
  \/ Slice(DcNormalized, 1, 3) = strMK

\* C16: for every 10-byte header whose normalized form begins with T-,
\* bare T, HDR- or MK-, detect_dc_game returns success with a serial, for
\* every hyphen count and length; it returns failure only when the read
\* fails or no prefix matches.
DcClassifiedSucceeds ==
  (det.system = "dc" /\ img.len >= 74 /\ Len(det.results) >= 1) =>
     /\ DcClassified =>
          (det.results[1].rv = 1 /\ ~det.results[1].fault)
     /\ ~DcClassified => det.results[1].rv = 0

---------------------------------------------------------------------------
(* detect_serial_ascii_game : src/tasks/task_database_cue.c:852-894 *)

strWBFS == <<87, 66, 70, 83>>      \* "WBFS"

\* for (pos = 0; pos < 10000; pos++)
AsciiScanLimit == 10000

MaxChunks == 3

\* The image is a few pieces laid end to end from offset 0:
\* "WBFS", a space, a NUL, "AB12", "ABCDE-123"
AsciiChunks ==
  {strWBFS, <<32>>, <<0>>, <<65, 66, 49, 50>>, <<65, 66, 67, 68, 69, 45, 49, 50, 51>>}

AsciiImages ==
  {[len |-> Len(Concat(cs)), bytes |-> Place(0, Concat(cs))] :
     cs \in SeqsUpTo(AsciiChunks, MaxChunks)}

AsciiInit ==
  /\ img \in AsciiImages
  /\ det \in {[pos |-> 0, game_id |-> id, rv |-> 0] : id \in PriorIds}
  /\ pc = "ascii_loop"
  /\ fd = Unused /\ pos = 0 /\ tmp_token = Unused /\ errno = 0
  /\ first = FALSE /\ fsys = Unused /\ cue = Unused /\ gdi = Unused
  /\ out = Unused /\ hist = Unused /\ tok = Unused /\ given = Unused

\* game_id[i] == 45 || (game_id[i] >= 48 && game_id[i] <= 57) ||
\* (game_id[i] >= 65 && game_id[i] <= 90)
AsciiIsSerialChar(c) == c = 45 \/ (c >= 48 /\ c <= 57) \/ (c >= 65 /\ c <= 90)

\* for (i = 0; i < 15; i++) ... numberOfAscii++ ... else break;
RECURSIVE AsciiRun(_, _)
AsciiRun(game_id, i) ==
  IF i < 15 /\ AsciiIsSerialChar(game_id[i + 1])
  THEN 1 + AsciiRun(game_id, i + 1) ELSE 0

\* if (string_is_equal(game_id, "WBFS")) continue;
AsciiIgnores(game_id) == CStr(game_id) = strWBFS

\* if (numberOfAscii > 3 && numberOfAscii < 9)
AsciiAccepts(numberOfAscii) == numberOfAscii > 3 /\ numberOfAscii < 9

\* One iteration of the loop at an offset inside the image
AsciiProbe ==
  /\ pc = "ascii_loop"
  /\ det.pos < AsciiScanLimit /\ det.pos < img.len
  /\ \E r \in {intfstream_read(img, det.pos, det.game_id, 15)} :
     \E id \in {Store(r.buf, 15, <<0>>)} :
       IF r.n <= 0
       THEN /\ det' = [det EXCEPT !.pos = @ + 1]
            /\ pc' = "ascii_loop"
       ELSE IF AsciiIgnores(id)
       THEN /\ det' = [det EXCEPT !.pos = @ + 1, !.game_id = id]
            /\ pc' = "ascii_loop"
       ELSE IF AsciiAccepts(AsciiRun(id, 0))
       THEN /\ det' = [det EXCEPT !.rv = 1,
                         !.game_id = Store(id, AsciiRun(id, 0), <<0>>)]
            /\ pc' = "done"
       ELSE /\ det' = [det EXCEPT !.pos = @ + 1, !.game_id = id]
            /\ pc' = "ascii_loop"
  /\ UNCHANGED <<fd, pos, tmp_token, errno, first, fsys, cue, gdi, out, hist,
                 tok, given, img>>

\* The iterations at the offsets from the end of the image up to the
\* limit: every read gives 0 bytes and nothing is stored
AsciiPastEnd ==
  /\ pc = "ascii_loop"
  /\ det.pos < AsciiScanLimit /\ det.pos >= img.len
  /\ det' = [det EXCEPT !.pos = AsciiScanLimit]
  /\ pc' = "ascii_loop"
  /\ UNCHANGED <<fd, pos, tmp_token, errno, first, fsys, cue, gdi, out, hist,
                 tok, given, img>>

\* return rv;  after the last offset
AsciiEnd ==
  /\ pc = "ascii_loop"
  /\ det.pos >= AsciiScanLimit
  /\ pc' = "done"
  /\ UNCHANGED <<fd, pos, tmp_token, errno, first, fsys, cue, gdi, out, hist,
                 tok, given, img, det>>

AsciiNext == AsciiProbe \/ AsciiPastEnd \/ AsciiEnd

SpecAscii == AsciiInit /\ [][AsciiNext]_vars

(* What the image holds, computed from the image alone *)

\* The length of the run of A-Z / 0-9 / '-' bytes the image holds at o,
\* counted up to 15 bytes
RECURSIVE AsciiImageRun(_, _)
AsciiImageRun(o, n) ==
  IF n < 15 /\ o + n < img.len /\ AsciiIsSerialChar(ByteAt(img, o + n))
  THEN AsciiImageRun(o, n + 1) ELSE n

AsciiHoldsWBFS(o) ==
  o + 4 <= img.len /\ \A j \in 1..4 : ByteAt(img, o + j - 1) = strWBFS[j]

\* The offsets that give a serial: not holding "WBFS", run of 4 to 8 bytes
AsciiOffsets ==
  {o \in 0..(Min(img.len, AsciiScanLimit) - 1) :
     ~AsciiHoldsWBFS(o) /\ AsciiAccepts(AsciiImageRun(o, 0))}

AsciiLowest == CHOOSE o \in AsciiOffsets : \A q \in AsciiOffsets : o <= q

\* C17: detect_serial_ascii_game returns the leading run of A-Z / 0-9 / '-'
\* bytes at the lowest offset below 10000 where that run has more than 3
\* and fewer than 9 bytes, and failure when there is none; an offset where
\* the image holds "WBFS" is skipped whatever byte follows, so "WBFS" is
\* never returned.
AsciiLowestRun ==
  pc = "done" =>
     /\ (det.rv = 1 => CStr(det.game_id) # strWBFS)
     /\ IF AsciiOffsets = {} THEN det.rv = 0
        ELSE /\ det.rv = 1
             /\ CStr(det.game_id) =
                  [j \in 1..AsciiImageRun(AsciiLowest, 0) |->
                     ByteAt(img, AsciiLowest + j - 1)]

=============================================================================
